---- MODULE Spec2Model ----
(***************************************************************************)
(* The credential vault of project-lens-tauri: CryptoService (AES-256-GCM  *)
(* behind PBKDF2), MasterPasswordManager (the session record) and          *)
(* SecureRepository (the encrypted workspace rows).                        *)
(*                                                                         *)
(* Bytes are the integers 0..255, a byte string is a sequence of them, a   *)
(* password is a sequence of Unicode code points.  The primitives of the   *)
(* `ring` crate (PBKDF2, AES-GCM seal/open, SystemRandom) are modelled by  *)
(* small computable stand-ins that keep their contracts: a keyed stream    *)
(* cipher (bytes added modulo 256) with an appended 16-byte tag over (key, *)
(* nonce, ciphertext), a key that is a digest of (password, salt), and a   *)
(* generator that never repeats.  Everything the repository itself does    *)
(* with them (lengths, offsets, order of the steps, error mapping) is      *)
(* taken from the source.                                                  *)
(***************************************************************************)
EXTENDS Integers, Sequences, FiniteSets, Bags, TLC

VARIABLES
    now,                      \* SystemTime::now() in seconds since the epoch
    ticks,                    \* how often the clock of the model has advanced
    session_timeout_seconds,  \* MasterPasswordManager.session_timeout_seconds
    password_hash_storage,    \* Option<Vec<u8>>: <<>> is None
    latest_password,          \* history: the password of the most recent
                              \* successful set_password (<<>> before it)
    verified_at,              \* history: the clock reading of the latest
                              \* successful verify_password, 0 if there was
                              \* none or a verify_password or extend_session
                              \* was called since
    session,                  \* SessionInfo
    store,                    \* the workspaces table: id -> row
    saved,                    \* history: id -> the API key of the latest
                              \* successful save of that id through the
                              \* vault, while no successful delete and no
                              \* write from outside the vault followed it
    expired_reported,         \* history: a get_session_status has returned
                              \* Expired and no verify_password has
                              \* succeeded since
    last,                     \* the last call and what it returned
    cs,                       \* the CryptoService exercised on its own
    callers,                  \* concurrent callers of the manager: for each
                              \* its call, its place in it and its locals
    locks,                    \* the holder (0: free) of the Mutex around
                              \* the manager, of password_hash_storage's
                              \* and of session's
    probe,                    \* check_password_strength exercised on its
                              \* own: two passwords and their strengths
    mem                       \* SecureBytes and SecureString exercised on
                              \* their own: the buffers and what is left in
                              \* the memory they gave back

vars == <<now, ticks, session_timeout_seconds, password_hash_storage,
          latest_password, verified_at,
          session, store, saved, expired_reported, last, cs,
          callers, locks, probe, mem>>

(***************************************************************************)
(* Bounds of the model.                                                    *)
(***************************************************************************)
MaxTicks == 2
MaxTimeout == 1
MaxPlainLen == 1
StartTime == 1

(***************************************************************************)
(* Constants of the program.                                               *)
(***************************************************************************)
SaltLen == 32
NonceLen == 12
TagLen == 16
MinCiphertextLen == 60
Pbkdf2Iterations == 100000
HashModulus == 65521

Byte == 0..255

(***************************************************************************)
(* Byte-string helpers.                                                    *)
(***************************************************************************)
Slice(s, from, to) == [i \in 1..(to - from) |-> s[from + i]]

RECURSIVE Xor(_, _)
Xor(a, b) ==
    IF a = 0 THEN b
    ELSE IF b = 0 THEN a
    ELSE 2 * Xor(a \div 2, b \div 2) + ((a + b) % 2)

\* A keyed digest of a byte string: the weighted sum of its bytes on top of
\* the seed, so that a change of any one byte changes it.
Digest(s, seed) ==
    (seed + BagCardinality([i \in 1..Len(s) |-> (s[i] + 1) * (2 * i + 1)]))
        % HashModulus

\* A digest spread over n bytes: the first two carry it whole.
Spread(d, n) ==
    [j \in 1..n |-> IF j = 1 THEN d \div 256
                    ELSE IF j = 2 THEN d % 256
                    ELSE (d + j * ((d \div 256) + 1)) % 256]

(***************************************************************************)
(* str::as_bytes: UTF-8.                                                   *)
(***************************************************************************)
Utf8Char(cp) ==
    IF cp < 128 THEN <<cp>>
    ELSE IF cp < 2048 THEN <<192 + (cp \div 64), 128 + (cp % 64)>>
    ELSE IF cp < 65536
    THEN <<224 + (cp \div 4096), 128 + ((cp \div 64) % 64), 128 + (cp % 64)>>
    ELSE <<240 + (cp \div 262144), 128 + ((cp \div 4096) % 64),
           128 + ((cp \div 64) % 64), 128 + (cp % 64)>>

RECURSIVE as_bytes(_)
as_bytes(str) ==
    IF str = <<>> THEN <<>> ELSE Utf8Char(Head(str)) \o as_bytes(Tail(str))

(***************************************************************************)
(* CryptoService.                                                          *)
(***************************************************************************)
\* SystemRandom::fill for the n-th encryption: len bytes, different for
\* every n and for the two lengths asked for.
rng_fill(n, len) == [i \in 1..len |-> (n * 16 + len + i) % 256]

generate_salt(n) == rng_fill(n, SaltLen)

generate_nonce(n) == rng_fill(n, NonceLen)

derive_key(password, salt) ==
    Spread(Digest(as_bytes(password) \o salt, Pbkdf2Iterations), 32)

KeyStream(key, nonce, i) ==
    (key[((i - 1) % 32) + 1] + nonce[((i - 1) % NonceLen) + 1] + i) % 256

AeadTag(key, nonce, ct) ==
    Spread(Digest(nonce \o ct, key[1] * 256 + key[2]), TagLen)

\* SealingKey::seal_in_place_append_tag with empty associated data.
seal_in_place_append_tag(key, nonce, data) ==
    LET ct == [i \in 1..Len(data) |-> (data[i] + KeyStream(key, nonce, i)) % 256]
    IN  ct \o AeadTag(key, nonce, ct)

\* An open_in_place whose caller keeps the whole buffer, tag included.
open_in_place_whole_buffer(key, nonce, data) ==
    IF Len(data) < TagLen THEN [err |-> "Unspecified", val |-> <<>>]
    ELSE LET n  == Len(data) - TagLen
             ct == Slice(data, 0, n)
         IN  IF Slice(data, n, Len(data)) = AeadTag(key, nonce, ct)
             THEN [err |-> "Ok",
                   val |-> [i \in 1..Len(data) |->
                              IF i <= n
                              THEN (ct[i] + 256 - KeyStream(key, nonce, i)) % 256
                              ELSE data[i]]]
             ELSE [err |-> "Unspecified", val |-> <<>>]

\* A decrypt that derives the key and removes the key stream but does not
\* compare the tag.
decrypt_unauthenticated(ciphertext, password) ==
    IF Len(ciphertext) < MinCiphertextLen
    THEN [err |-> "InvalidDataFormat", val |-> <<>>]
    ELSE LET salt        == Slice(ciphertext, 0, 32)
             nonce_bytes == Slice(ciphertext, 32, 44)
             ct          == Slice(ciphertext, 44, Len(ciphertext) - TagLen)
             key         == derive_key(password, salt)
         IN  [err |-> "Ok",
              val |-> [i \in 1..Len(ct) |->
                         (ct[i] + 256 - KeyStream(key, nonce_bytes, i)) % 256]]

\* OpeningKey::open_in_place: the plaintext, or an error.
open_in_place(key, nonce, data) ==
    IF Len(data) < TagLen THEN [err |-> "Unspecified", val |-> <<>>]
    ELSE LET n  == Len(data) - TagLen
             ct == Slice(data, 0, n)
         IN  IF Slice(data, n, Len(data)) = AeadTag(key, nonce, ct)
             THEN [err |-> "Ok",
                   val |-> [i \in 1..n |-> (ct[i] + 256 - KeyStream(key, nonce, i)) % 256]]
             ELSE [err |-> "Unspecified", val |-> <<>>]

\* An encrypt that takes the same salt and nonce at every call.
encrypt_fixed_salt_nonce(plaintext, password, n) ==
    LET salt        == generate_salt(0)
        key         == derive_key(password, salt)
        nonce_bytes == generate_nonce(0)
        data        == seal_in_place_append_tag(key, nonce_bytes, plaintext)
    IN  salt \o nonce_bytes \o data

\* CryptoService::encrypt, the generator handing out its n-th values.
encrypt(plaintext, password, n) ==
    LET salt        == generate_salt(n)
        key         == derive_key(password, salt)
        nonce_bytes == generate_nonce(n)
        data        == seal_in_place_append_tag(key, nonce_bytes, plaintext)
    IN  salt \o nonce_bytes \o data

\* A decrypt without the length check: a buffer too short to hold salt,
\* nonce and tag fails where the tag is compared.
decrypt_length_unchecked(ciphertext, password) ==
    LET n              == Len(ciphertext)
        at(a)          == IF a < n THEN a ELSE n
        salt           == Slice(ciphertext, 0, at(32))
        nonce_bytes    == Slice(ciphertext, at(32), at(44))
        encrypted_data == Slice(ciphertext, at(44), n)
    IN  IF n < MinCiphertextLen
        THEN [err |-> "DecryptionFailed", val |-> <<>>]
        ELSE LET key    == derive_key(password, salt)
                 opened == open_in_place(key, nonce_bytes, encrypted_data)
             IN  IF opened.err = "Ok" THEN opened
                 ELSE [err |-> "DecryptionFailed", val |-> <<>>]

\* The calls of derive_key that decrypt makes for a buffer: the length is
\* checked, and the call returns, before salt and nonce are read.
derive_key_calls(ciphertext) ==
    IF Len(ciphertext) < MinCiphertextLen THEN 0 ELSE 1

decrypt(ciphertext, password) ==
    IF Len(ciphertext) < MinCiphertextLen
    THEN [err |-> "InvalidDataFormat", val |-> <<>>]
    ELSE LET salt           == Slice(ciphertext, 0, 32)
             nonce_bytes    == Slice(ciphertext, 32, 44)
             encrypted_data == Slice(ciphertext, 44, Len(ciphertext))
             key            == derive_key(password, salt)
             opened         == open_in_place(key, nonce_bytes, encrypted_data)
         IN  IF opened.err = "Ok" THEN opened
             ELSE [err |-> "DecryptionFailed", val |-> <<>>]

(***************************************************************************)
(* CryptoService on its own: one encrypt of a plaintext under a password,  *)
(* then (optionally after one bit of the blob was flipped) one decrypt.    *)
(***************************************************************************)
PlainBytes == {0, 255}

RECURSIVE ByteStrings(_)
ByteStrings(n) ==
    IF n = 0 THEN {<<>>}
    ELSE ByteStrings(n - 1)
         \cup {Append(s, b) : s \in {t \in ByteStrings(n - 1) : Len(t) = n - 1},
                              b \in PlainBytes}

Plaintexts == ByteStrings(MaxPlainLen)

\* "", "p", "q", and a two-character password with a two-byte character.
CryptoPasswords == {<<>>, <<112>>, <<113>>, <<112, 233>>}

NoResult == [err |-> "None", val |-> <<>>]

CsIdle == [phase |-> "idle", x |-> <<>>, p |-> <<>>, orig |-> <<>>,
           blob |-> <<>>, q |-> <<>>, out |-> NoResult,
           second |-> <<>>, out2 |-> NoResult, kdf |-> 0]

FlipBit(s, pos, bit) == [s EXCEPT ![pos] = Xor(s[pos], 2 ^ bit)]

\* The callers that share the manager, none of them in a call, and the
\* three locks free.
Callers == {1, 2}

CallerIdle == [pc |-> "idle", op |-> "", pw |-> <<>>, now |-> 0,
               password_hash |-> <<>>, calls |-> 0]

LocksFree == [manager |-> 0, storage |-> 0, session |-> 0]

\* No password under test.
ProbeIdle == [first |-> <<>>, second |-> <<>>, tiers |-> <<>>]

\* The objects that own a secret buffer: none of them made yet.
Handles == {1, 2}

NoBuffer == [kind |-> "", live |-> FALSE, data |-> <<>>, freed |-> <<>>]

MemEmpty == [h \in Handles |-> NoBuffer]

MainUnchanged ==
    UNCHANGED <<now, ticks, session_timeout_seconds, password_hash_storage,
                latest_password, verified_at,
                session, store, saved, expired_reported, last,
                callers, locks, probe, mem>>

\* The generator never hands out a value the program still holds: the
\* first salt byte of every blob in the hash storage, in the table (read
\* off the base64 text) and under test marks the values that are taken.
Marks(blobs) == {b[1] : b \in {c \in blobs : c # <<>>}}

TextMarks(table) ==
    {table[k].api_key_encrypted[1] * 4 + (table[k].api_key_encrypted[2] \div 16) :
        k \in {j \in DOMAIN table : Len(table[j].api_key_encrypted) >= 2}}

LiveMarks ==
    Marks({password_hash_storage, cs.orig, cs.blob, cs.second}
              \cup {callers[c].password_hash : c \in Callers})
        \cup TextMarks(store)

\* Each holder of a blob (the hash storage, the blob under test, every
\* row of the table) is handed the first of its two values, or the second
\* when it holds the first now.
FreshFor(holder, marks) ==
    CHOOSE n \in {2 * holder - 1, 2 * holder} :
        /\ generate_salt(n)[1] \notin marks
        /\ (n = 2 * holder => generate_salt(n - 1)[1] \in marks)

HashHolder == 1

CsHolder == 2

CsEncrypt ==
    /\ cs.phase = "init"
    /\ LET b == encrypt(cs.x, cs.p, FreshFor(CsHolder, LiveMarks))
       IN  cs' = [cs EXCEPT !.phase = "encrypted", !.orig = b, !.blob = b]
    /\ MainUnchanged

CsTamper ==
    /\ cs.phase = "encrypted"
    /\ \E pos \in 1..Len(cs.blob), bit \in 0..7 :
          cs' = [cs EXCEPT !.phase = "tampered",
                           !.blob = FlipBit(cs.blob, pos, bit)]
    /\ MainUnchanged

CsDecrypt ==
    /\ cs.phase \in {"encrypted", "tampered"}
    /\ \E q \in CryptoPasswords :
          cs' = [cs EXCEPT !.phase = "decrypted", !.q = q,
                           !.out = decrypt(cs.blob, q)]
    /\ MainUnchanged

\* The same plaintext encrypted once more under the same password, and
\* both blobs decrypted with it (test_different_encryption_results).
CsEncryptAgain ==
    /\ cs.phase = "encrypted"
    /\ cs' = [cs EXCEPT !.phase = "again",
                        !.second = encrypt(cs.x, cs.p,
                                           FreshFor(CsHolder, LiveMarks))]
    /\ MainUnchanged

CsDecryptBoth ==
    /\ cs.phase = "again"
    /\ cs' = [cs EXCEPT !.phase = "both", !.q = cs.p,
                        !.out = decrypt(cs.orig, cs.p),
                        !.out2 = decrypt(cs.second, cs.p)]
    /\ MainUnchanged

\* Buffers of fewer than 60 bytes: the blob cut short, or that many zero
\* bytes (test_invalid_data_format), decrypted with any password.
ShortBuffers(blob) ==
    UNION {{Slice(blob, 0, k), [i \in 1..k |-> 0]} :
              k \in 0..(MinCiphertextLen - 1)}

CsDecryptShort ==
    /\ cs.phase = "encrypted"
    /\ \E short \in ShortBuffers(cs.orig), q \in CryptoPasswords :
          cs' = [cs EXCEPT !.phase = "short", !.blob = short, !.q = q,
                           !.out = decrypt(short, q),
                           !.kdf = derive_key_calls(short)]
    /\ MainUnchanged

NextCrypto ==
    \/ CsEncrypt
    \/ CsTamper
    \/ CsDecrypt
    \/ CsEncryptAgain
    \/ CsDecryptBoth
    \/ CsDecryptShort

(***************************************************************************)
(* String::from_utf8 and the base64 crate.  A base64 text is a sequence of *)
(* alphabet indices 0..63, with 64 for the padding character '='.          *)
(***************************************************************************)
IsCont(b) == b \in 128..191

\* The number of bytes of the character that starts at s[i], 0 if invalid.
Utf8Width(s, i) ==
    LET b == s[i]
        n == Len(s)
    IN  IF b < 128 THEN 1
        ELSE IF b \in 194..223
             THEN IF i + 1 <= n /\ IsCont(s[i + 1]) THEN 2 ELSE 0
        ELSE IF b \in 224..239
             THEN IF /\ i + 2 <= n /\ IsCont(s[i + 1]) /\ IsCont(s[i + 2])
                     /\ (b = 224 => s[i + 1] >= 160)
                     /\ (b = 237 => s[i + 1] <= 159)
                  THEN 3 ELSE 0
        ELSE IF b \in 240..244
             THEN IF /\ i + 3 <= n
                     /\ IsCont(s[i + 1]) /\ IsCont(s[i + 2]) /\ IsCont(s[i + 3])
                     /\ (b = 240 => s[i + 1] >= 144)
                     /\ (b = 244 => s[i + 1] <= 143)
                  THEN 4 ELSE 0
        ELSE 0

Utf8CodePoint(s, i, w) ==
    IF w = 1 THEN s[i]
    ELSE IF w = 2 THEN (s[i] - 192) * 64 + (s[i + 1] - 128)
    ELSE IF w = 3
         THEN (s[i] - 224) * 4096 + (s[i + 1] - 128) * 64 + (s[i + 2] - 128)
    ELSE (s[i] - 240) * 262144 + (s[i + 1] - 128) * 4096
         + (s[i + 2] - 128) * 64 + (s[i + 3] - 128)

RECURSIVE from_utf8_at(_, _, _)
from_utf8_at(s, i, acc) ==
    IF i > Len(s) THEN [err |-> "Ok", val |-> acc]
    ELSE LET w == Utf8Width(s, i)
         IN  IF w = 0 THEN [err |-> "FromUtf8Error", val |-> <<>>]
             ELSE from_utf8_at(s, i + w, Append(acc, Utf8CodePoint(s, i, w)))

from_utf8(bytes) == from_utf8_at(bytes, 1, <<>>)

Pad == 64

base64_encode(bytes) ==
    LET n == Len(bytes)
    IN  [k \in 1..(4 * ((n + 2) \div 3)) |->
            LET i == 3 * ((k - 1) \div 4)
                j == (k - 1) % 4
            IN  IF j = 0 THEN bytes[i + 1] \div 4
                ELSE IF j = 1
                     THEN (bytes[i + 1] % 4) * 16
                          + (IF i + 2 > n THEN 0 ELSE bytes[i + 2] \div 16)
                ELSE IF j = 2
                     THEN IF i + 2 > n THEN Pad
                          ELSE (bytes[i + 2] % 16) * 4
                               + (IF i + 3 > n THEN 0 ELSE bytes[i + 3] \div 64)
                ELSE IF i + 3 > n THEN Pad ELSE bytes[i + 3] % 64]

\* The number of padding characters that end the text (at most two count).
PadCount(text) ==
    LET n == Len(text)
    IN  IF n >= 1 /\ text[n] = Pad
        THEN IF n >= 2 /\ text[n - 1] = Pad THEN 2 ELSE 1
        ELSE 0

base64_decode(text) ==
    LET n    == Len(text)
        pads == PadCount(text)
        len  == 3 * (n \div 4) - pads
        bad  == [err |-> "DecodeError", val |-> <<>>]
    IN  IF n % 4 # 0 THEN bad
        ELSE IF \E k \in 1..(n - pads) : text[k] \notin 0..63 THEN bad
        ELSE IF pads = 1 /\ text[n - 1] % 4 # 0 THEN bad
        ELSE IF pads = 2 /\ text[n - 2] % 16 # 0 THEN bad
        ELSE [err |-> "Ok",
              val |-> [k \in 1..len |->
                  LET g == (k - 1) \div 3
                      j == (k - 1) % 3
                      c0 == text[4 * g + 1]
                      c1 == text[4 * g + 2]
                      c2 == text[4 * g + 3]
                      c3 == text[4 * g + 4]
                  IN  IF j = 0 THEN c0 * 4 + (c1 \div 16)
                      ELSE IF j = 1 THEN (c1 % 16) * 16 + (c2 \div 4)
                      ELSE (c2 % 4) * 64 + c3]]

(***************************************************************************)
(* MasterPasswordManager.                                                  *)
(***************************************************************************)
\* char::is_lowercase & co. on the characters the model uses: ASCII,
\* Latin-1 letters, Arabic-Indic digits and Hiragana.
is_lowercase(c) == c \in 97..122 \/ c \in 223..246 \/ c \in 248..255

is_uppercase(c) == c \in 65..90 \/ c \in 192..214 \/ c \in 216..222

is_ascii_digit(c) == c \in 48..57

is_alphanumeric(c) ==
    \/ is_lowercase(c) \/ is_uppercase(c) \/ is_ascii_digit(c)
    \/ c \in 1632..1641 \/ c \in 12353..12438


check_password_strength(password) ==
    LET length        == Len(as_bytes(password))
        has_lowercase == \E i \in 1..Len(password) : is_lowercase(password[i])
        has_uppercase == \E i \in 1..Len(password) : is_uppercase(password[i])
        has_digit     == \E i \in 1..Len(password) : is_ascii_digit(password[i])
        has_special   == \E i \in 1..Len(password) : ~is_alphanumeric(password[i])
        criteria_met  == Cardinality({k \in 1..4 :
                            <<has_lowercase, has_uppercase, has_digit, has_special>>[k]})
    IN  IF length < 8 \/ ~has_lowercase \/ ~has_uppercase \/ ~has_digit
        THEN "Weak"
        ELSE IF length >= 12 /\ criteria_met = 4 THEN "VeryStrong"
        ELSE IF (length >= 10 /\ criteria_met = 4) \/ (length >= 12 /\ criteria_met = 3)
             THEN "Strong"
        ELSE IF (length >= 8 /\ criteria_met = 4) \/ (length >= 10 /\ criteria_met = 3)
             THEN "Strong"
        ELSE IF length >= 8 /\ criteria_met = 3 THEN "Fair"
        ELSE "Weak"

\* b"master_password_validation_data"
validation_data == as_bytes(<<109, 97, 115, 116, 101, 114, 95, 112, 97, 115, 115, 119, 111, 114, 100, 95, 118, 97, 108, 105, 100, 97, 116, 105, 111, 110, 95, 100, 97, 116, 97>>)

\* "weak", "Password1", "Strong123!"
PwWeak == <<119, 101, 97, 107>>

PwFair == <<80, 97, 115, 115, 119, 111, 114, 100, 49>>

PwStrong == <<83, 116, 114, 111, 110, 103, 49, 50, 51, 33>>

MasterPasswords == {PwWeak, PwFair, PwStrong}

\* MasterPasswordManager::new: 30 minutes.
DefaultTimeout == 30 * 60

Timeouts == (0..MaxTimeout) \cup {DefaultTimeout}

\* SessionInfo::default
SessionDefault == [is_authenticated |-> FALSE, expires_at |-> 0, last_activity |-> 0]

None == <<>>

Call(op) == [op |-> op, pw |-> <<>>, id |-> "", res |-> "Ok", out |-> "",
             val |-> 0, t |-> 0, crypto |-> 0, writes |-> 0, ret |-> <<>>]

\* A status check that takes the second of expires_at for expired.
StatusAtInclusive(s, t) ==
    IF ~s.is_authenticated THEN "NotAuthenticated"
    ELSE IF t >= s.expires_at THEN "Expired"
    ELSE "Authenticated"

\* The session record after get_session_status at clock reading t, and
\* the status it returns.
StatusAt(s, t) ==
    IF ~s.is_authenticated THEN "NotAuthenticated"
    ELSE IF t > s.expires_at THEN "Expired"
    ELSE "Authenticated"

\* A status check that leaves the record of an expired session as it is.
SessionAfterStatusKeeping(s, t) == s

SessionAfterStatus(s, t) ==
    IF StatusAt(s, t) = "Expired" THEN SessionDefault ELSE s

Init ==
    /\ now = StartTime
    /\ ticks = 0
    /\ session_timeout_seconds \in Timeouts
    /\ password_hash_storage = None
    /\ latest_password = <<>>
    /\ verified_at = 0
    /\ session = SessionDefault
    /\ store = <<>>
    /\ saved = <<>>
    /\ expired_reported = FALSE
    /\ last = Call("new")
    /\ cs = CsIdle
    /\ callers = [c \in Callers |-> CallerIdle]
    /\ locks = LocksFree
    /\ probe = ProbeIdle
    /\ mem = MemEmpty

\* What the calls made one at a time leave alone: the CryptoService
\* exercised on its own and the concurrent callers.
CryptoUnchanged == UNCHANGED <<cs, callers, locks, probe, mem>>

\* A set_password that leaves the session as it was.
SetPasswordKeepingSession(password) ==
    LET strength == check_password_strength(password)
    IN  IF strength = "Weak"
        THEN /\ last' = [Call("set_password") EXCEPT !.pw = password,
                                                     !.res = "WeakPassword"]
             /\ UNCHANGED <<password_hash_storage, latest_password, session>>
        ELSE /\ password_hash_storage' =
                    encrypt(validation_data, password,
                            FreshFor(HashHolder, LiveMarks))
             /\ latest_password' = password
             /\ UNCHANGED session
             /\ last' = [Call("set_password") EXCEPT !.pw = password,
                                                     !.out = strength,
                                                     !.crypto = 1]

SetPassword(password) ==
    LET strength == check_password_strength(password)
    IN  IF strength = "Weak"
        THEN /\ last' = [Call("set_password") EXCEPT !.pw = password,
                                                     !.res = "WeakPassword"]
             /\ UNCHANGED <<password_hash_storage, latest_password, session>>
        ELSE /\ password_hash_storage' =
                    encrypt(validation_data, password,
                            FreshFor(HashHolder, LiveMarks))
             /\ latest_password' = password
             /\ session' = SessionDefault
             /\ last' = [Call("set_password") EXCEPT !.pw = password,
                                                     !.out = strength,
                                                     !.crypto = 1]

set_password ==
    /\ \E password \in MasterPasswords : SetPassword(password)
    /\ UNCHANGED <<now, ticks, session_timeout_seconds, verified_at, store, saved,
                   expired_reported>>
    /\ CryptoUnchanged

\* A verify_password that ends the session when the password is wrong.
VerifyPasswordClearing(password) ==
    IF password_hash_storage = None
    THEN /\ last' = [Call("verify_password") EXCEPT !.pw = password,
                                                    !.res = "PasswordNotSet"]
         /\ verified_at' = 0
         /\ UNCHANGED session
    ELSE LET decrypted == decrypt(password_hash_storage, password)
         IN  IF decrypted.err # "Ok" \/ decrypted.val # validation_data
             THEN /\ last' = [Call("verify_password") EXCEPT
                                 !.pw = password, !.res = "InvalidPassword",
                                 !.crypto = 1]
                  /\ verified_at' = 0
                  /\ session' = SessionDefault
             ELSE LET expires_at == now + session_timeout_seconds
                  IN  /\ session' = [is_authenticated |-> TRUE,
                                     expires_at |-> expires_at,
                                     last_activity |-> now]
                      /\ verified_at' = now
                      /\ last' = [Call("verify_password") EXCEPT
                                     !.pw = password, !.val = expires_at,
                                     !.t = now, !.crypto = 1]

\* A verify_password that starts a session of no length.
VerifyPasswordNoTimeout(password) ==
    IF password_hash_storage = None
    THEN /\ last' = [Call("verify_password") EXCEPT !.pw = password,
                                                    !.res = "PasswordNotSet"]
         /\ verified_at' = 0
         /\ UNCHANGED session
    ELSE LET decrypted == decrypt(password_hash_storage, password)
         IN  IF decrypted.err # "Ok" \/ decrypted.val # validation_data
             THEN /\ last' = [Call("verify_password") EXCEPT
                                 !.pw = password, !.res = "InvalidPassword",
                                 !.crypto = 1]
                  /\ verified_at' = 0
                  /\ UNCHANGED session
             ELSE LET expires_at == now
                  IN  /\ session' = [is_authenticated |-> TRUE,
                                     expires_at |-> expires_at,
                                     last_activity |-> now]
                      /\ verified_at' = now
                      /\ last' = [Call("verify_password") EXCEPT
                                     !.pw = password, !.val = expires_at,
                                     !.t = now, !.crypto = 1]

VerifyPassword(password) ==
    IF password_hash_storage = None
    THEN /\ last' = [Call("verify_password") EXCEPT !.pw = password,
                                                    !.res = "PasswordNotSet"]
         /\ verified_at' = 0
         /\ UNCHANGED session
    ELSE LET decrypted == decrypt(password_hash_storage, password)
         IN  IF decrypted.err # "Ok" \/ decrypted.val # validation_data
             THEN /\ last' = [Call("verify_password") EXCEPT
                                 !.pw = password, !.res = "InvalidPassword",
                                 !.crypto = 1]
                  /\ verified_at' = 0
                  /\ UNCHANGED session
             ELSE LET expires_at == now + session_timeout_seconds
                  IN  /\ session' = [is_authenticated |-> TRUE,
                                     expires_at |-> expires_at,
                                     last_activity |-> now]
                      /\ verified_at' = now
                      /\ last' = [Call("verify_password") EXCEPT
                                     !.pw = password, !.val = expires_at,
                                     !.t = now, !.crypto = 1]

verify_password ==
    /\ \E password \in MasterPasswords : VerifyPassword(password)
    /\ expired_reported' = (expired_reported /\ last'.res # "Ok")
    /\ UNCHANGED <<now, ticks, session_timeout_seconds,
                   password_hash_storage, latest_password, store, saved>>
    /\ CryptoUnchanged

get_session_status ==
    /\ session' = SessionAfterStatus(session, now)
    /\ last' = [Call("get_session_status") EXCEPT
                   !.out = StatusAt(session, now),
                   !.val = IF StatusAt(session, now) = "Authenticated"
                           THEN session.expires_at ELSE 0,
                   !.t = now]
    /\ expired_reported' =
           (expired_reported \/ StatusAt(session, now) = "Expired")
    /\ UNCHANGED <<now, ticks, session_timeout_seconds,
                   password_hash_storage, latest_password,
                   verified_at, store, saved>>
    /\ CryptoUnchanged

is_authenticated ==
    /\ session' = SessionAfterStatus(session, now)
    /\ last' = [Call("is_authenticated") EXCEPT
                   !.out = IF StatusAt(session, now) = "Authenticated"
                           THEN "true" ELSE "false",
                   !.t = now]
    /\ UNCHANGED <<now, ticks, session_timeout_seconds,
                   password_hash_storage, latest_password,
                   verified_at, store, saved,
                   expired_reported>>
    /\ CryptoUnchanged

\* extend_session at clock reading t: the record after it and the error.
ExtendOk(s, t) == s.is_authenticated /\ ~(t > s.expires_at)

\* An extend_session that counts the new timeout from the old expiry.
SessionAfterExtendFromExpiry(s, t) ==
    IF ExtendOk(s, t)
    THEN [s EXCEPT !.expires_at = s.expires_at + session_timeout_seconds,
                   !.last_activity = t]
    ELSE s

\* An extend_session that clears the record of a session it refuses.
SessionAfterExtendClearing(s, t) ==
    IF ExtendOk(s, t)
    THEN [s EXCEPT !.expires_at = t + session_timeout_seconds,
                   !.last_activity = t]
    ELSE SessionDefault

\* An extend_session that moves the expiry and forgets the activity.
SessionAfterExtendKeepingActivity(s, t) ==
    IF ExtendOk(s, t)
    THEN [s EXCEPT !.expires_at = t + session_timeout_seconds]
    ELSE s

SessionAfterExtend(s, t) ==
    IF ExtendOk(s, t)
    THEN [s EXCEPT !.expires_at = t + session_timeout_seconds,
                   !.last_activity = t]
    ELSE s

extend_session ==
    /\ session' = SessionAfterExtend(session, now)
    /\ last' = IF ExtendOk(session, now)
               THEN [Call("extend_session") EXCEPT
                        !.val = now + session_timeout_seconds, !.t = now]
               ELSE [Call("extend_session") EXCEPT
                        !.res = "SessionInvalid", !.t = now]
    /\ verified_at' = 0
    /\ UNCHANGED <<now, ticks, session_timeout_seconds,
                   password_hash_storage, latest_password, store, saved,
                   expired_reported>>
    /\ CryptoUnchanged

clear_session ==
    /\ session' = SessionDefault
    /\ last' = Call("clear_session")
    /\ UNCHANGED <<now, ticks, session_timeout_seconds,
                   password_hash_storage, latest_password,
                   verified_at, store, saved,
                   expired_reported>>
    /\ CryptoUnchanged

\* The clock moves on, by a second or by the length of the timeout.
Tick ==
    /\ ticks < MaxTicks
    /\ \E d \in {1, session_timeout_seconds} \ {0} : now' = now + d
    /\ ticks' = ticks + 1
    /\ UNCHANGED <<session_timeout_seconds, password_hash_storage,
                   latest_password, verified_at, session, store, saved,
                   expired_reported, last>>
    /\ CryptoUnchanged

NextAuth ==
    \/ set_password
    \/ verify_password
    \/ get_session_status
    \/ is_authenticated
    \/ extend_session
    \/ clear_session
    \/ Tick

SpecAuth == Init /\ [][NextAuth]_vars

(***************************************************************************)
(* SecureRepository over the workspaces table.                             *)
(***************************************************************************)
\* "dummy_password"
dummy_password == <<100, 117, 109, 109, 121, 95, 112, 97, 115, 115, 119, 111, 114, 100>>

\* SecureRepository::new: the current encryption version.
\* A vault whose current version is the one a migration went to.
encryption_version_migrated == "v2"

encryption_version == "v1"

WorkspaceIds == {"w1", "w2"}

\* The order in which a full read of the table yields its rows.
IdOrder == <<"w1", "w2">>

\* API keys: "k" and "e-acute 1".
Secrets == {<<107>>, <<233, 49>>}

Versions == {"v1", "v2"}

RowHolder(id) == 2 + (CHOOSE i \in 1..Len(IdOrder) : IdOrder[i] = id)

\* The clock readings t2 >= t1 that a second read in one call can give.
LaterReadings == {0} \cup (IF ticks < MaxTicks THEN {1} ELSE {})

\* verify_authentication with is_authenticated reading the clock at t1 and
\* extend_session at t2: whether the gate lets the call pass, and the
\* session record it leaves.
\* A gate that turns no call away.
GatePassesAlways(s, t1, t2) == TRUE

GatePasses(s, t1, t2) ==
    /\ StatusAt(s, t1) = "Authenticated"
    /\ ExtendOk(SessionAfterStatus(s, t1), t2)

\* A gate that checks the session and does not extend it.
SessionAfterGateNoExtend(s, t1, t2) == SessionAfterStatus(s, t1)

SessionAfterGate(s, t1, t2) ==
    IF StatusAt(s, t1) = "Authenticated"
    THEN SessionAfterExtend(SessionAfterStatus(s, t1), t2)
    ELSE SessionAfterStatus(s, t1)

\* What verify_authentication returns when the gate lets the call pass.
verify_authentication == dummy_password

Row(id, text, version) ==
    [id |-> id, api_key_encrypted |-> text, encryption_version |-> version]

\* An insert that keeps the row an id already has.
save_workspace_or_ignore(table, row) ==
    [k \in (DOMAIN table) \cup {row.id} |->
        IF k \in DOMAIN table THEN table[k] ELSE row]

\* WorkspaceRepository: INSERT OR REPLACE, SELECT by id, DELETE by id.
save_workspace(table, row) ==
    [k \in (DOMAIN table) \cup {row.id} |-> IF k = row.id THEN row ELSE table[k]]

\* A delete that empties the table.
delete_workspace_all(table, id) ==
    [k \in {} |-> table[k]]

delete_workspace(table, id) ==
    [k \in (DOMAIN table) \ {id} |-> table[k]]

AllRows(table) ==
    LET present == {i \in 1..Len(IdOrder) : IdOrder[i] \in DOMAIN table}
        nth(k) == CHOOSE i \in present :
                     Cardinality({j \in present : j < i}) = k - 1
    IN  [k \in 1..Cardinality(present) |-> table[IdOrder[nth(k)]]]

\* Decoding, decrypting and reading one stored row as get and list do.
OpenRow(row, master_password) ==
    LET encrypted_api_key == base64_decode(row.api_key_encrypted)
    IN  IF encrypted_api_key.err # "Ok"
        THEN [err |-> "DataFormatError", val |-> <<>>, crypto |-> 0]
        ELSE LET api_key_bytes == decrypt(encrypted_api_key.val, master_password)
             IN  IF api_key_bytes.err # "Ok"
                 THEN [err |-> "CryptographyError", val |-> <<>>, crypto |-> 1]
                 ELSE LET api_key_plaintext == from_utf8(api_key_bytes.val)
                      IN  IF api_key_plaintext.err # "Ok"
                          THEN [err |-> "DataFormatError", val |-> <<>>,
                                crypto |-> 1]
                          ELSE [err |-> "Ok", val |-> api_key_plaintext.val,
                                crypto |-> 1]

\* The loop of get_all_backlog_workspace_configs over rows k..: the pairs
\* read so far, or the first error.
RECURSIVE OpenRows(_, _, _, _)
OpenRows(rows, k, master_password, acc) ==
    IF acc.err # "Ok" \/ k > Len(rows) THEN acc
    ELSE LET r == OpenRow(rows[k], master_password)
         IN  OpenRows(rows, k + 1, master_password,
                IF r.err = "Ok"
                THEN [err |-> "Ok",
                      val |-> Append(acc.val, <<rows[k], r.val>>),
                      crypto |-> acc.crypto + r.crypto]
                ELSE [err |-> r.err, val |-> <<>>,
                      crypto |-> acc.crypto + r.crypto])

get_all(table, master_password) ==
    OpenRows(AllRows(table), 1, master_password,
             [err |-> "Ok", val |-> <<>>, crypto |-> 0])

\* What a caller keeps of a listing: id, version and API key per record.
Listed(configs) ==
    [k \in 1..Len(configs) |->
        [id |-> configs[k][1].id,
         encryption_version |-> configs[k][1].encryption_version,
         api_key |-> configs[k][2]]]

\* The history of saves: id holds api_key from now on, or holds nothing.
Remember(map, id, api_key) ==
    [k \in (DOMAIN map) \cup {id} |-> IF k = id THEN api_key ELSE map[k]]

Forget(map, id) == [k \in (DOMAIN map) \ {id} |-> map[k]]

\* What no vault operation changes; the gate calls extend_session after
\* is_authenticated has answered true.
VaultFrame ==
    /\ UNCHANGED <<session_timeout_seconds, password_hash_storage,
                   latest_password, expired_reported>>
    /\ verified_at' = IF StatusAt(session, now) = "Authenticated"
                      THEN 0 ELSE verified_at
    /\ CryptoUnchanged

\* A call that the gate turns away.
Denied(op, id, t1, d) ==
    /\ last' = [Call(op) EXCEPT !.id = id, !.res = "AuthenticationError"]
    /\ session' = SessionAfterGate(session, t1, t1 + d)
    /\ UNCHANGED <<store, saved>>

Advance(d) ==
    /\ now' = now + d
    /\ ticks' = ticks + d

save_backlog_workspace_config ==
    \E d \in LaterReadings :
       /\ Advance(d)
       /\ VaultFrame
       /\ IF ~GatePasses(session, now, now + d)
          THEN \E id \in WorkspaceIds : Denied("save", id, now, d)
          ELSE \E api_key_plaintext \in Secrets, id \in WorkspaceIds :
               \E encrypted_api_key \in
                      {encrypt(as_bytes(api_key_plaintext),
                               verify_authentication,
                               FreshFor(RowHolder(id), LiveMarks))} :
               \E text \in {base64_encode(encrypted_api_key)} :
                  /\ session' = SessionAfterGate(session, now, now + d)
                  /\ store' = save_workspace(store,
                                  Row(id, text, encryption_version))
                  /\ saved' = Remember(saved, id, api_key_plaintext)
                  /\ last' = [Call("save") EXCEPT !.id = id,
                                 !.pw = api_key_plaintext, !.crypto = 1,
                                 !.writes = 1]

\* A get that answers an id without a row as the gate answers a caller
\* without a session.
GetRowMissingDenied(table, id, master_password) ==
    IF id \notin DOMAIN table
    THEN [err |-> "AuthenticationError", val |-> <<>>, crypto |-> 0,
          out |-> ""]
    ELSE LET r == OpenRow(table[id], master_password)
         IN  [err |-> r.err, val |-> r.val, crypto |-> r.crypto, out |-> ""]

\* What get_backlog_workspace_config returns once the gate is passed.
GetRow(table, id, master_password) ==
    IF id \notin DOMAIN table
    THEN [err |-> "DataFormatError", val |-> <<>>, crypto |-> 0,
          out |-> "NotFound"]
    ELSE LET r == OpenRow(table[id], master_password)
         IN  [err |-> r.err, val |-> r.val, crypto |-> r.crypto, out |-> ""]

get_backlog_workspace_config ==
    \E d \in LaterReadings :
       /\ Advance(d)
       /\ VaultFrame
       /\ IF ~GatePasses(session, now, now + d)
          THEN \E id \in WorkspaceIds : Denied("get", id, now, d)
          ELSE \E id \in WorkspaceIds :
               \E r \in {GetRow(store, id, verify_authentication)} :
                  /\ session' = SessionAfterGate(session, now, now + d)
                  /\ UNCHANGED <<store, saved>>
                  /\ last' = [Call("get") EXCEPT !.id = id, !.res = r.err,
                                 !.out = r.out, !.pw = r.val,
                                 !.ret = IF r.err = "Ok"
                                         THEN Listed(<<<<store[id], r.val>>>>)
                                         ELSE <<>>,
                                 !.crypto = r.crypto]

get_all_backlog_workspace_configs ==
    \E d \in LaterReadings :
       /\ Advance(d)
       /\ VaultFrame
       /\ IF ~GatePasses(session, now, now + d)
          THEN Denied("list", "", now, d)
          ELSE \E r \in {get_all(store, verify_authentication)} :
                  /\ session' = SessionAfterGate(session, now, now + d)
                  /\ UNCHANGED <<store, saved>>
                  /\ last' = [Call("list") EXCEPT !.res = r.err,
                                 !.ret = Listed(r.val),
                                 !.crypto = r.crypto]

delete_backlog_workspace_config ==
    \E id \in WorkspaceIds, d \in LaterReadings :
       /\ Advance(d)
       /\ VaultFrame
       /\ IF ~GatePasses(session, now, now + d)
          THEN Denied("delete", id, now, d)
          ELSE /\ session' = SessionAfterGate(session, now, now + d)
               /\ store' = delete_workspace(store, id)
               /\ saved' = Forget(saved, id)
               /\ last' = [Call("delete") EXCEPT !.id = id, !.writes = 1]

\* A migration loop that encrypts and writes every row again, whatever
\* its version tag.
RECURSIVE MigrateRowsAlways(_, _, _, _, _, _)
MigrateRowsAlways(configs, k, new_version, master_password, fail_at, acc) ==
    IF acc.err # "Ok" \/ k > Len(configs) THEN acc
    ELSE LET config  == configs[k][1]
             api_key == configs[k][2]
             new_encrypted_api_key ==
                 encrypt(as_bytes(api_key), master_password,
                         FreshFor(RowHolder(config.id), acc.marks))
         IN  IF acc.writes + 1 = fail_at
             THEN [acc EXCEPT !.crypto = acc.crypto + 1,
                              !.err = "DatabaseError"]
             ELSE MigrateRowsAlways(configs, k + 1, new_version,
                    master_password, fail_at,
                    [table |-> save_workspace(acc.table,
                                  Row(config.id,
                                      base64_encode(new_encrypted_api_key),
                                      new_version)),
                     marks |-> acc.marks \cup {new_encrypted_api_key[1]},
                     crypto |-> acc.crypto + 1,
                     writes |-> acc.writes + 1,
                     err |-> "Ok"])

\* A migration loop in which a refused write leaves the new version tag on
\* the row it was for.
RECURSIVE MigrateRowsTagFirst(_, _, _, _, _, _)
MigrateRowsTagFirst(configs, k, new_version, master_password, fail_at, acc) ==
    IF acc.err # "Ok" \/ k > Len(configs) THEN acc
    ELSE LET config  == configs[k][1]
             api_key == configs[k][2]
         IN  IF config.encryption_version # new_version
             THEN LET new_encrypted_api_key ==
                          encrypt(as_bytes(api_key), master_password,
                                  FreshFor(RowHolder(config.id), acc.marks))
                  IN  IF acc.writes + 1 = fail_at
                      THEN [acc EXCEPT !.crypto = acc.crypto + 1,
                                       !.err = "DatabaseError",
                                       !.table = save_workspace(acc.table,
                                           Row(config.id,
                                               config.api_key_encrypted,
                                               new_version))]
                      ELSE MigrateRowsTagFirst(configs, k + 1, new_version,
                             master_password, fail_at,
                             [table |-> save_workspace(acc.table,
                                           Row(config.id,
                                               base64_encode(new_encrypted_api_key),
                                               new_version)),
                              marks |-> acc.marks \cup
                                        {new_encrypted_api_key[1]},
                              crypto |-> acc.crypto + 1,
                              writes |-> acc.writes + 1,
                              err |-> "Ok"])
             ELSE MigrateRowsTagFirst(configs, k + 1, new_version,
                                      master_password, fail_at, acc)

\* The loop of migrate_encryption_version over the pairs k.. that the
\* listing returned: the table after it, the values taken by then, the
\* calls made and the error that ended it.  The database refuses the
\* fail_at-th write of the loop (none when fail_at = 0).
RECURSIVE MigrateRows(_, _, _, _, _, _)
MigrateRows(configs, k, new_version, master_password, fail_at, acc) ==
    IF acc.err # "Ok" \/ k > Len(configs) THEN acc
    ELSE LET config  == configs[k][1]
             api_key == configs[k][2]
         IN  IF config.encryption_version # new_version
             THEN LET new_encrypted_api_key ==
                          encrypt(as_bytes(api_key), master_password,
                                  FreshFor(RowHolder(config.id), acc.marks))
                  IN  IF acc.writes + 1 = fail_at
                      THEN [acc EXCEPT !.crypto = acc.crypto + 1,
                                       !.err = "DatabaseError"]
                      ELSE MigrateRows(configs, k + 1, new_version,
                             master_password, fail_at,
                             [table |-> save_workspace(acc.table,
                                           Row(config.id,
                                               base64_encode(new_encrypted_api_key),
                                               new_version)),
                              marks |-> acc.marks \cup
                                        {new_encrypted_api_key[1]},
                              crypto |-> acc.crypto + 1,
                              writes |-> acc.writes + 1,
                              err |-> "Ok"])
             ELSE MigrateRows(configs, k + 1, new_version, master_password,
                              fail_at, acc)

\* The writes of one migration that the database can refuse.
WriteFailures == 0..Cardinality(WorkspaceIds)

\* migrate_encryption_version passes the gate twice: on entry, and again
\* inside get_all_backlog_workspace_configs (clock readings now+d, now+d).
migrate_encryption_version ==
    \E d \in LaterReadings :
       /\ Advance(d)
       /\ VaultFrame
       /\ UNCHANGED saved
       /\ IF ~GatePasses(session, now, now + d)
          THEN \E new_version \in Versions :
                  /\ last' = [Call("migrate") EXCEPT
                                 !.id = new_version,
                                 !.res = "AuthenticationError"]
                  /\ session' = SessionAfterGate(session, now, now + d)
                  /\ UNCHANGED store
          ELSE \E s1 \in {SessionAfterGate(session, now, now + d)} :
               IF ~GatePasses(s1, now + d, now + d)
               THEN \E new_version \in Versions :
                       /\ last' = [Call("migrate") EXCEPT
                                      !.id = new_version,
                                      !.res = "AuthenticationError"]
                       /\ session' = SessionAfterGate(s1, now + d, now + d)
                       /\ UNCHANGED store
               ELSE \E configs \in {get_all(store, verify_authentication)} :
                    \E new_version \in Versions :
                       /\ session' = SessionAfterGate(s1, now + d, now + d)
                       /\ IF configs.err # "Ok"
                          THEN /\ last' = [Call("migrate") EXCEPT
                                             !.id = new_version,
                                             !.res = configs.err,
                                             !.crypto = configs.crypto]
                               /\ UNCHANGED store
                          ELSE \E fail_at \in WriteFailures :
                               \E m \in {MigrateRows(configs.val, 1,
                                            new_version, verify_authentication,
                                            fail_at,
                                            [table |-> store,
                                             marks |-> LiveMarks,
                                             crypto |-> configs.crypto,
                                             writes |-> 0,
                                             err |-> "Ok"])} :
                                  /\ store' = m.table
                                  /\ last' = [Call("migrate") EXCEPT
                                                 !.id = new_version,
                                                 !.res = m.err,
                                                 !.crypto = m.crypto,
                                                 !.writes = m.writes]

\* The commands of lib.rs through which the user of the vault sets and
\* enters the master password.
VaultPasswords == {PwFair}

set_master_password ==
    /\ password_hash_storage = None
    /\ \E password \in VaultPasswords : SetPassword(password)
    /\ UNCHANGED <<now, ticks, session_timeout_seconds, verified_at, store, saved,
                   expired_reported>>
    /\ CryptoUnchanged

verify_master_password ==
    /\ \E password \in VaultPasswords : VerifyPassword(password)
    /\ expired_reported' = (expired_reported /\ last'.res # "Ok")
    /\ UNCHANGED <<now, ticks, session_timeout_seconds,
                   password_hash_storage, latest_password, store, saved>>
    /\ CryptoUnchanged

\* The vault is exercised with sessions of one second.
VaultTimeouts == {1}

InitVault ==
    /\ now = StartTime
    /\ ticks = 0
    /\ session_timeout_seconds \in VaultTimeouts
    /\ password_hash_storage = None
    /\ latest_password = <<>>
    /\ verified_at = 0
    /\ session = SessionDefault
    /\ store = <<>>
    /\ saved = <<>>
    /\ expired_reported = FALSE
    /\ last = Call("new")
    /\ cs = CsIdle
    /\ callers = [c \in Callers |-> CallerIdle]
    /\ locks = LocksFree
    /\ probe = ProbeIdle
    /\ mem = MemEmpty

NextVault ==
    \/ set_master_password
    \/ verify_master_password
    \/ clear_session
    \/ Tick
    \/ save_backlog_workspace_config
    \/ get_backlog_workspace_config
    \/ get_all_backlog_workspace_configs
    \/ delete_backlog_workspace_config
    \/ migrate_encryption_version

SpecVault == InitVault /\ [][NextVault]_vars

(***************************************************************************)
(* The workspaces table is also written outside the vault: the project     *)
(* synchronisation stores a workspace row as it is handed one, whatever    *)
(* its api_key_encrypted text.  The texts tried are one that is not        *)
(* base64, one that decodes to fewer bytes than a blob has, and a blob     *)
(* under the vault's key whose plaintext is not UTF-8.                     *)
(***************************************************************************)
NotBase64 == <<0>>

ShortBlob == base64_encode(<<1, 2, 3>>)

NotUtf8 == <<255>>

ForeignTexts(id) ==
    {NotBase64, ShortBlob,
     base64_encode(encrypt(NotUtf8, verify_authentication,
                           FreshFor(RowHolder(id), LiveMarks)))}

batch_update_project_data ==
    /\ \E id \in WorkspaceIds :
       \E text \in ForeignTexts(id) :
          /\ store' = save_workspace(store, Row(id, text, encryption_version))
          /\ saved' = Forget(saved, id)
          /\ last' = [Call("batch_update") EXCEPT !.id = id, !.writes = 1]
    /\ UNCHANGED <<now, ticks, session_timeout_seconds,
                   password_hash_storage, latest_password, verified_at,
                   session, expired_reported>>
    /\ CryptoUnchanged

\* The table with its writers from outside, the clock standing still.
InitStore ==
    /\ now = StartTime
    /\ ticks = MaxTicks
    /\ session_timeout_seconds \in VaultTimeouts
    /\ password_hash_storage = None
    /\ latest_password = <<>>
    /\ verified_at = 0
    /\ session = SessionDefault
    /\ store = <<>>
    /\ saved = <<>>
    /\ expired_reported = FALSE
    /\ last = Call("new")
    /\ cs = CsIdle
    /\ callers = [c \in Callers |-> CallerIdle]
    /\ locks = LocksFree
    /\ probe = ProbeIdle
    /\ mem = MemEmpty

NextStore ==
    \/ set_master_password
    \/ verify_master_password
    \/ batch_update_project_data
    \/ save_backlog_workspace_config
    \/ get_backlog_workspace_config
    \/ get_all_backlog_workspace_configs
    \/ delete_backlog_workspace_config
    \/ migrate_encryption_version

SpecStore == InitStore /\ [][NextStore]_vars

InitCrypto ==
    /\ now = StartTime
    /\ ticks = 0
    /\ session_timeout_seconds = DefaultTimeout
    /\ password_hash_storage = None
    /\ latest_password = <<>>
    /\ verified_at = 0
    /\ session = SessionDefault
    /\ store = <<>>
    /\ saved = <<>>
    /\ expired_reported = FALSE
    /\ last = Call("new")
    /\ cs \in {[CsIdle EXCEPT !.phase = "init", !.x = x, !.p = p] :
                  x \in Plaintexts, p \in CryptoPasswords}
    /\ callers = [c \in Callers |-> CallerIdle]
    /\ locks = LocksFree
    /\ probe = ProbeIdle
    /\ mem = MemEmpty

SpecCrypto == InitCrypto /\ [][NextCrypto]_vars

(***************************************************************************)
(* MasterPasswordManager shared by concurrent callers.  A call is a        *)
(* sequence of steps: taking a lock, the statements under it (which end    *)
(* with its release), a reading of the clock, an encrypt or a decrypt.     *)
(* A caller at "encrypt" or "decrypt" is inside that call of the           *)
(* CryptoService.  Callers share the manager itself (its methods take      *)
(* &self), or reach it through the commands of lib.rs, which hold the      *)
(* Mutex around the manager for the whole call.                            *)
(***************************************************************************)
MaxCalls == 2

ConcPasswords == {PwFair, PwStrong}

ManagerOps == {"set_password", "verify_password", "get_session_status",
               "extend_session", "clear_session"}

CallerHolder(c) == 4 + c

\* Where a call starts once it is in the manager.
FirstPc(op) ==
    CASE op = "set_password"       -> "encrypt"
      [] op = "verify_password"    -> "lock_storage"
      [] op = "get_session_status" -> "clock"
      [] op = "extend_session"     -> "clock"
      [] op = "clear_session"      -> "lock_session"

\* The statements a call runs under the session lock.
UnderSessionLock(op) ==
    CASE op = "set_password"       -> "clear"
      [] op = "verify_password"    -> "write"
      [] op = "get_session_status" -> "status"
      [] op = "extend_session"     -> "extend"
      [] op = "clear_session"      -> "clear"

CryptoSteps == {"encrypt", "decrypt"}

ConcFrame ==
    UNCHANGED <<now, ticks, session_timeout_seconds, store, saved, cs,
                probe, mem>>

Goto(c, pc) == callers' = [callers EXCEPT ![c].pc = pc]

\* The call of caller c returns: its locals go, its locks are released.
Return(c, result) ==
    /\ callers' = [callers EXCEPT ![c] =
                      [CallerIdle EXCEPT !.calls = callers[c].calls]]
    /\ locks' = [k \in DOMAIN locks |-> IF locks[k] = c THEN 0 ELSE locks[k]]
    /\ last' = result

\* A caller that shares the manager calls one of its methods.
CallerBegin ==
    \E c \in Callers, op \in ManagerOps, password \in ConcPasswords :
       /\ callers[c].pc = "idle"
       /\ callers[c].calls < MaxCalls
       /\ op \notin {"set_password", "verify_password"}
             => password = PwFair
       /\ IF op = "set_password"
             /\ check_password_strength(password) = "Weak"
          THEN /\ callers' = [callers EXCEPT ![c].calls = @ + 1]
               /\ last' = [Call(op) EXCEPT !.pw = password,
                                           !.res = "WeakPassword"]
          ELSE /\ callers' = [callers EXCEPT ![c] =
                     [CallerIdle EXCEPT
                         !.pc = FirstPc(op), !.op = op,
                         !.pw = IF op \in {"set_password", "verify_password"}
                                THEN password ELSE <<>>,
                         !.calls = callers[c].calls + 1]]
               /\ UNCHANGED last
       /\ UNCHANGED <<password_hash_storage, latest_password, verified_at,
                      session, expired_reported, locks>>
       /\ ConcFrame

\* A caller invokes a command of lib.rs, which first locks the manager.
CommandBegin ==
    \E c \in Callers, op \in ManagerOps, password \in ConcPasswords :
       /\ callers[c].pc = "idle"
       /\ callers[c].calls < MaxCalls
       /\ op \notin {"set_password", "verify_password"}
             => password = PwFair
       /\ callers' = [callers EXCEPT ![c] =
             [CallerIdle EXCEPT
                 !.pc = "lock_manager", !.op = op,
                 !.pw = IF op \in {"set_password", "verify_password"}
                        THEN password ELSE <<>>,
                 !.calls = callers[c].calls + 1]]
       /\ UNCHANGED <<password_hash_storage, latest_password, verified_at,
                      session, expired_reported, last, locks>>
       /\ ConcFrame

LockManager ==
    \E c \in Callers :
       /\ callers[c].pc = "lock_manager"
       /\ locks.manager = 0
       /\ IF callers[c].op = "set_password"
             /\ check_password_strength(callers[c].pw) = "Weak"
          THEN /\ callers' = [callers EXCEPT ![c] =
                     [CallerIdle EXCEPT !.calls = callers[c].calls]]
               /\ last' = [Call("set_password") EXCEPT
                              !.pw = callers[c].pw, !.res = "WeakPassword"]
               /\ UNCHANGED locks
          ELSE /\ locks' = [locks EXCEPT !.manager = c]
               /\ Goto(c, FirstPc(callers[c].op))
               /\ UNCHANGED last
       /\ UNCHANGED <<password_hash_storage, latest_password, verified_at,
                      session, expired_reported>>
       /\ ConcFrame

\* set_password: the verification ciphertext is made before any lock of
\* the manager's fields is taken.
CallerEncrypt ==
    \E c \in Callers :
       /\ callers[c].pc = "encrypt"
       /\ callers' = [callers EXCEPT
             ![c].password_hash =
                 encrypt(validation_data, callers[c].pw,
                         FreshFor(CallerHolder(c), LiveMarks)),
             ![c].pc = "lock_storage"]
       /\ UNCHANGED <<password_hash_storage, latest_password, verified_at,
                      session, expired_reported, last, locks>>
       /\ ConcFrame

LockStorage ==
    \E c \in Callers :
       /\ callers[c].pc = "lock_storage"
       /\ locks.storage = 0
       /\ locks' = [locks EXCEPT !.storage = c]
       /\ Goto(c, IF callers[c].op = "set_password" THEN "store" ELSE "read")
       /\ UNCHANGED <<password_hash_storage, latest_password, verified_at,
                      session, expired_reported, last>>
       /\ ConcFrame

\* set_password: *storage = Some(password_hash), and the block ends.
StoreHash ==
    \E c \in Callers :
       /\ callers[c].pc = "store"
       /\ password_hash_storage' = callers[c].password_hash
       /\ locks' = [locks EXCEPT !.storage = 0]
       /\ Goto(c, "lock_session")
       /\ UNCHANGED <<latest_password, verified_at, session,
                      expired_reported, last>>
       /\ ConcFrame

\* verify_password: the clone of the stored ciphertext, or PasswordNotSet.
ReadHash ==
    \E c \in Callers :
       /\ callers[c].pc = "read"
       /\ IF password_hash_storage = None
          THEN /\ Return(c, [Call("verify_password") EXCEPT
                                !.pw = callers[c].pw,
                                !.res = "PasswordNotSet"])
               /\ verified_at' = 0
          ELSE /\ callers' = [callers EXCEPT
                     ![c].password_hash = password_hash_storage,
                     ![c].pc = "decrypt"]
               /\ locks' = [locks EXCEPT !.storage = 0]
               /\ UNCHANGED <<last, verified_at>>
       /\ UNCHANGED <<password_hash_storage, latest_password, session,
                      expired_reported>>
       /\ ConcFrame

CallerDecrypt ==
    \E c \in Callers :
       /\ callers[c].pc = "decrypt"
       /\ LET decrypted == decrypt(callers[c].password_hash, callers[c].pw)
          IN  IF decrypted.err # "Ok" \/ decrypted.val # validation_data
              THEN /\ Return(c, [Call("verify_password") EXCEPT
                                    !.pw = callers[c].pw,
                                    !.res = "InvalidPassword",
                                    !.crypto = 1])
                   /\ verified_at' = 0
              ELSE /\ Goto(c, "clock")
                   /\ UNCHANGED <<last, locks, verified_at>>
       /\ UNCHANGED <<password_hash_storage, latest_password, session,
                      expired_reported>>
       /\ ConcFrame

\* let now = self.current_timestamp()?
ReadClock ==
    \E c \in Callers :
       /\ callers[c].pc = "clock"
       /\ callers' = [callers EXCEPT ![c].now = now,
                                     ![c].pc = "lock_session"]
       /\ UNCHANGED <<password_hash_storage, latest_password, verified_at,
                      session, expired_reported, last, locks>>
       /\ ConcFrame

LockSession ==
    \E c \in Callers :
       /\ callers[c].pc = "lock_session"
       /\ locks.session = 0
       /\ locks' = [locks EXCEPT !.session = c]
       /\ Goto(c, UnderSessionLock(callers[c].op))
       /\ UNCHANGED <<password_hash_storage, latest_password, verified_at,
                      session, expired_reported, last>>
       /\ ConcFrame

\* verify_password: the session starts from the clock reading taken
\* before the lock.
WriteSession ==
    \E c \in Callers :
       /\ callers[c].pc = "write"
       /\ LET expires_at == callers[c].now + session_timeout_seconds
          IN  /\ session' = [is_authenticated |-> TRUE,
                             expires_at |-> expires_at,
                             last_activity |-> callers[c].now]
              /\ Return(c, [Call("verify_password") EXCEPT
                               !.pw = callers[c].pw, !.val = expires_at,
                               !.t = callers[c].now, !.crypto = 1])
       /\ verified_at' = callers[c].now
       /\ expired_reported' = FALSE
       /\ UNCHANGED <<password_hash_storage, latest_password>>
       /\ ConcFrame

CheckStatus ==
    \E c \in Callers :
       /\ callers[c].pc = "status"
       /\ session' = SessionAfterStatus(session, callers[c].now)
       /\ Return(c, [Call("get_session_status") EXCEPT
                        !.out = StatusAt(session, callers[c].now),
                        !.val = IF StatusAt(session, callers[c].now)
                                     = "Authenticated"
                                THEN session.expires_at ELSE 0,
                        !.t = callers[c].now])
       /\ expired_reported' =
              (expired_reported
                  \/ StatusAt(session, callers[c].now) = "Expired")
       /\ UNCHANGED <<password_hash_storage, latest_password, verified_at>>
       /\ ConcFrame

ExtendSession ==
    \E c \in Callers :
       /\ callers[c].pc = "extend"
       /\ session' = SessionAfterExtend(session, callers[c].now)
       /\ Return(c, IF ExtendOk(session, callers[c].now)
                    THEN [Call("extend_session") EXCEPT
                             !.val = callers[c].now + session_timeout_seconds,
                             !.t = callers[c].now]
                    ELSE [Call("extend_session") EXCEPT
                             !.res = "SessionInvalid", !.t = callers[c].now])
       /\ verified_at' = 0
       /\ UNCHANGED <<password_hash_storage, latest_password,
                      expired_reported>>
       /\ ConcFrame

\* clear_session, called by itself or as the last statement of
\* set_password, which then returns the strength.
ClearSession ==
    \E c \in Callers :
       /\ callers[c].pc = "clear"
       /\ session' = SessionDefault
       /\ IF callers[c].op = "set_password"
          THEN /\ Return(c, [Call("set_password") EXCEPT
                                !.pw = callers[c].pw,
                                !.out = check_password_strength(callers[c].pw),
                                !.crypto = 1])
               /\ latest_password' = callers[c].pw
          ELSE /\ Return(c, Call("clear_session"))
               /\ UNCHANGED latest_password
       /\ UNCHANGED <<password_hash_storage, verified_at, expired_reported>>
       /\ ConcFrame

InitShared ==
    /\ now = StartTime
    /\ ticks = 0
    /\ session_timeout_seconds = MaxTimeout
    /\ password_hash_storage = None
    /\ latest_password = <<>>
    /\ verified_at = 0
    /\ session = SessionDefault
    /\ store = <<>>
    /\ saved = <<>>
    /\ expired_reported = FALSE
    /\ last = Call("new")
    /\ cs = CsIdle
    /\ callers = [c \in Callers |-> CallerIdle]
    /\ locks = LocksFree
    /\ probe = ProbeIdle
    /\ mem = MemEmpty

\* Callers that hold the manager itself.
NextShared ==
    \/ CallerBegin
    \/ CallerEncrypt
    \/ LockStorage
    \/ StoreHash
    \/ ReadHash
    \/ CallerDecrypt
    \/ ReadClock
    \/ LockSession
    \/ WriteSession
    \/ CheckStatus
    \/ ExtendSession
    \/ ClearSession
    \/ Tick

SpecShared == InitShared /\ [][NextShared]_vars

\* Callers that go through the commands of lib.rs.
NextCommands ==
    \/ CommandBegin
    \/ LockManager
    \/ CallerEncrypt
    \/ LockStorage
    \/ StoreHash
    \/ ReadHash
    \/ CallerDecrypt
    \/ ReadClock
    \/ LockSession
    \/ WriteSession
    \/ CheckStatus
    \/ ExtendSession
    \/ ClearSession
    \/ Tick

SpecCommands == InitShared /\ [][NextCommands]_vars

(***************************************************************************)
(* check_password_strength on its own: passwords made of one character of *)
(* some of the four classes followed by a run of one character.           *)
(***************************************************************************)
\* 'a', 'A', '1', '!'
ClassChars == <<97, 65, 49, 33>>

\* '1', U+00E9 (a lowercase letter of two bytes) and U+3042 (a letter of
\* three bytes that has no case).
Fillers == {49, 233, 12354}

MaxFill == 9

Core(chars) == SelectSeq(ClassChars, LAMBDA ch : ch \in chars)

Repeat(ch, k) == [i \in 1..k |-> ch]

StrengthInputs ==
    {Core(chars) \o Repeat(ch, k) :
        chars \in SUBSET {97, 65, 49, 33}, ch \in Fillers, k \in 0..MaxFill}

\* The order of the variants of PasswordStrength.
Rank(strength) ==
    CASE strength = "Weak"       -> 0
      [] strength = "Fair"       -> 1
      [] strength = "Strong"     -> 2
      [] strength = "VeryStrong" -> 3

\* The character classes check_password_strength looks for.
Classes(password) ==
    {k \in 1..4 :
        \E i \in 1..Len(password) :
           <<is_lowercase(password[i]), is_uppercase(password[i]),
             is_ascii_digit(password[i]), ~is_alphanumeric(password[i])>>[k]}

StrengthFrame ==
    UNCHANGED <<now, ticks, session_timeout_seconds, verified_at, store,
                saved, expired_reported, cs, callers, locks, mem>>

InitStrength ==
    /\ now = StartTime
    /\ ticks = 0
    /\ session_timeout_seconds = DefaultTimeout
    /\ password_hash_storage = None
    /\ latest_password = <<>>
    /\ verified_at = 0
    /\ session = SessionDefault
    /\ store = <<>>
    /\ saved = <<>>
    /\ expired_reported = FALSE
    /\ last = Call("new")
    /\ cs = CsIdle
    /\ callers = [c \in Callers |-> CallerIdle]
    /\ locks = LocksFree
    /\ probe \in {[ProbeIdle EXCEPT !.first = password] :
                     password \in StrengthInputs}
    /\ mem = MemEmpty

\* check_password_strength(first)
ProbeFirst ==
    /\ probe.tiers = <<>>
    /\ probe' = [probe EXCEPT !.tiers = <<check_password_strength(probe.first)>>]
    /\ last' = [Call("check_password_strength") EXCEPT
                   !.pw = probe.first,
                   !.out = check_password_strength(probe.first)]
    /\ UNCHANGED <<password_hash_storage, latest_password, session>>
    /\ StrengthFrame

\* check_password_strength of another password, to compare.
ProbeSecond ==
    /\ Len(probe.tiers) = 1
    /\ last.op = "check_password_strength"
    /\ \E password \in StrengthInputs :
          /\ probe' = [probe EXCEPT
                 !.second = password,
                 !.tiers = Append(@, check_password_strength(password))]
          /\ last' = [Call("check_password_strength") EXCEPT
                         !.pw = password,
                         !.out = check_password_strength(password)]
    /\ UNCHANGED <<password_hash_storage, latest_password, session>>
    /\ StrengthFrame

\* set_password(first)
ProbeSetPassword ==
    /\ Len(probe.tiers) = 1
    /\ last.op = "check_password_strength"
    /\ SetPassword(probe.first)
    /\ UNCHANGED probe
    /\ StrengthFrame

NextStrength ==
    \/ ProbeFirst
    \/ ProbeSecond
    \/ ProbeSetPassword

SpecStrength == InitStrength /\ [][NextStrength]_vars

(***************************************************************************)
(* SecureBytes and SecureString on their own.  `data` is the Vec<u8> as    *)
(* the program sees it, `freed` the bytes left in the allocation the       *)
(* object gave back last (<<>>: it gave none back).                        *)
(***************************************************************************)
MaxSecretLen == 2

\* SecretInputs of 0..MaxSecretLen bytes, none of them zero.
SecretInputs == {[i \in 1..n |-> 100 + i] : n \in 0..MaxSecretLen}

Zeros(n) == [i \in 1..n |-> 0]

\* data.clear(); data.shrink_to_fit(): the vector is empty and its
\* allocation, if it has one, goes back holding the bytes `left`.
Release(buffer, left) ==
    [buffer EXCEPT !.data = <<>>,
                   !.freed = IF left = <<>> THEN @ ELSE left]

\* SecureBytes::clear.  data.fill(0) is an ordinary store into memory that
\* nothing reads before it is given back: the build keeps the store or
\* removes it as dead.
SecureBytesClear(buffer, store_kept) ==
    Release(buffer, IF store_kept THEN Zeros(Len(buffer.data))
                    ELSE buffer.data)

\* Drop for SecureBytes: every byte is zeroed with write_volatile.
SecureBytesDrop(buffer) ==
    [Release(buffer, Zeros(Len(buffer.data))) EXCEPT !.live = FALSE]

\* Drop for SecureString: self.clear(), then the field `bytes` is dropped.
SecureStringDrop(buffer, store_kept) ==
    SecureBytesDrop(SecureBytesClear(buffer, store_kept))

SecureFrame ==
    UNCHANGED <<now, ticks, session_timeout_seconds, password_hash_storage,
                latest_password, verified_at, session, store, saved,
                expired_reported, cs, callers, locks, probe>>

\* SecureBytes::new(data)
SecureBytesNew ==
    /\ \E h \in Handles, data \in SecretInputs :
          /\ ~mem[h].live
          /\ mem' = [mem EXCEPT ![h] = [kind |-> "SecureBytes", live |-> TRUE,
                                        data |-> data, freed |-> <<>>]]
          /\ last' = [Call("SecureBytes::new") EXCEPT !.val = h]
    /\ SecureFrame

\* SecureString::new(password)
SecureStringNew ==
    /\ \E h \in Handles, password \in SecretInputs :
          /\ ~mem[h].live
          /\ mem' = [mem EXCEPT ![h] = [kind |-> "SecureString", live |-> TRUE,
                                        data |-> as_bytes(password),
                                        freed |-> <<>>]]
          /\ last' = [Call("SecureString::new") EXCEPT !.val = h]
    /\ SecureFrame

\* SecureBytes::clear, and SecureString::clear, which calls it.
SecureClear ==
    /\ \E h \in Handles, store_kept \in BOOLEAN :
          /\ mem[h].live
          /\ mem' = [mem EXCEPT ![h] = SecureBytesClear(@, store_kept)]
          /\ last' = [Call("clear") EXCEPT !.val = h]
    /\ SecureFrame

\* The owner goes out of scope.
SecureDrop ==
    /\ \E h \in Handles, store_kept \in BOOLEAN :
          /\ mem[h].live
          /\ mem' = [mem EXCEPT ![h] =
                IF @.kind = "SecureBytes" THEN SecureBytesDrop(@)
                ELSE SecureStringDrop(@, store_kept)]
          /\ last' = [Call("drop") EXCEPT !.val = h]
    /\ SecureFrame

InitSecure ==
    /\ now = StartTime
    /\ ticks = 0
    /\ session_timeout_seconds = DefaultTimeout
    /\ password_hash_storage = None
    /\ latest_password = <<>>
    /\ verified_at = 0
    /\ session = SessionDefault
    /\ store = <<>>
    /\ saved = <<>>
    /\ expired_reported = FALSE
    /\ last = Call("new")
    /\ cs = CsIdle
    /\ callers = [c \in Callers |-> CallerIdle]
    /\ locks = LocksFree
    /\ probe = ProbeIdle
    /\ mem = MemEmpty

NextSecure ==
    \/ SecureBytesNew
    \/ SecureStringNew
    \/ SecureClear
    \/ SecureDrop

SpecSecure == InitSecure /\ [][NextSecure]_vars

(***************************************************************************)
(* The claims.                                                             *)
(***************************************************************************)
VaultCall ==
    \/ save_backlog_workspace_config
    \/ get_backlog_workspace_config
    \/ get_all_backlog_workspace_configs
    \/ delete_backlog_workspace_config
    \/ migrate_encryption_version

\* C1: a vault operation (save, get, list, delete, migrate) called while
\* the session is not Authenticated (never verified, cleared, or past
\* expires_at) fails with AuthenticationError, calls neither encrypt nor
\* decrypt, and leaves the table as it was.
C1_DeniedWhenNotAuthenticated ==
    [][(StatusAt(session, now) # "Authenticated" /\ VaultCall)
          => /\ last'.res = "AuthenticationError"
             /\ last'.crypto = 0
             /\ store' = store]_vars

\* C1: with a row in the table, a delete of it was turned away.
C1_Witness ==
    /\ last.op = "delete"
    /\ last.res = "AuthenticationError"
    /\ last.id \in DOMAIN store
    /\ password_hash_storage # None

\* C2: for every plaintext x (the empty one too) and every password p (the
\* empty one too), decrypt(encrypt(x, p), p) succeeds and returns x.
C2_RoundTrip ==
    (cs.phase = "decrypted" /\ cs.blob = cs.orig /\ cs.q = cs.p)
        => cs.out = [err |-> "Ok", val |-> cs.x]

\* C2: the empty plaintext under the empty password came back.
C2_Witness ==
    /\ cs.phase = "decrypted"
    /\ cs.blob = cs.orig
    /\ cs.x = <<>> /\ cs.p = <<>> /\ cs.q = <<>>
    /\ cs.out.err = "Ok"

\* C3: for b = encrypt(x, p), decrypt(b, q) with q # p fails, and so does
\* decrypt(b', p) for every b' one bit away from b (in the salt, the nonce,
\* the ciphertext or the tag); the error is DecryptionFailed in each case.
C3_WrongPasswordOrTamperedFails ==
    (/\ cs.phase = "decrypted"
     /\ \/ cs.blob = cs.orig /\ cs.q # cs.p
        \/ cs.blob # cs.orig /\ cs.q = cs.p)
        => cs.out = [err |-> "DecryptionFailed", val |-> <<>>]

\* C3: a blob with one bit of its salt flipped was refused under the right
\* password.
C3_Witness ==
    /\ cs.phase = "decrypted"
    /\ cs.q = cs.p
    /\ \E i \in 1..SaltLen : cs.blob[i] # cs.orig[i]
    /\ cs.out.err = "DecryptionFailed"


\* C4: verify_password(p) ends in PasswordNotSet when no set_password has
\* succeeded, in InvalidPassword when one has and p is not the password of
\* the latest of them, and succeeds when p is that password; the two
\* failures leave the session record as it was.
C4_VerifyOutcomes ==
    [][verify_password
          => /\ last'.res = IF latest_password = <<>> THEN "PasswordNotSet"
                            ELSE IF last'.pw # latest_password
                                 THEN "InvalidPassword"
                            ELSE "Ok"
             /\ (last'.res # "Ok" => session' = session)
             /\ (last'.res = "Ok" => session'.is_authenticated)]_vars

\* C4: a wrong password was refused while a session was authenticated, and
\* the session still is.
C4_Witness ==
    /\ last.op = "verify_password"
    /\ last.res = "InvalidPassword"
    /\ latest_password # <<>>
    /\ last.pw # latest_password
    /\ session.is_authenticated

\* The two status reads C5 is about, made while the clock still reads the
\* second t at which verify_password succeeded.
C5_StatusReads ==
    /\ (is_authenticated => last'.out = "true")
    /\ (get_session_status
          => /\ last'.out = "Authenticated"
             /\ last'.val = last.t + session_timeout_seconds
             /\ last'.val > now)

\* C5 as claimed: for any timeout T, after verify_password succeeded at
\* time t, is_authenticated() is true and get_session_status() returns
\* Authenticated{expires_at} with expires_at = t + T and expires_at > now.
C5_AnyTimeout ==
    [][(last.op = "verify_password" /\ last.res = "Ok" /\ now = last.t)
          => C5_StatusReads]_vars

\* C5 amended: the same for every timeout T >= 1.
C5_PositiveTimeout ==
    [][(/\ last.op = "verify_password" /\ last.res = "Ok" /\ now = last.t
        /\ session_timeout_seconds >= 1)
          => C5_StatusReads]_vars

\* C5: with the default timeout, the status read in the second of a
\* successful verify_password gave Authenticated with expires_at = t + 1800.
C5_Witness ==
    /\ session_timeout_seconds = DefaultTimeout
    /\ last.op = "get_session_status"
    /\ last.out = "Authenticated"
    /\ verified_at = last.t
    /\ last.val = verified_at + DefaultTimeout

\* What get_session_status returns according to C6, t being the time of
\* the successful verify_password.
C6_StatusByTimeout ==
    IF now > verified_at + session_timeout_seconds
    THEN last'.out = "Expired" /\ session' = SessionDefault
    ELSE last'.out = "Authenticated"

\* is_authenticated() is false from the moment the record is
\* unauthenticated until a verify_password succeeds.
C6_FalseUntilVerified ==
    /\ (~session.is_authenticated /\ is_authenticated) => last'.out = "false"
    /\ (~session.is_authenticated /\ session'.is_authenticated)
          => (last'.op = "verify_password" /\ last'.res = "Ok")

\* C6 as claimed: verify_password succeeded and neither extend_session nor
\* verify_password was called since; then get_session_status() returns
\* Expired and resets the record once the timeout has elapsed and
\* Authenticated before, and is_authenticated() stays false until a
\* verify_password succeeds.
C6_ExpiredAfterTimeout ==
    [][/\ (verified_at # 0 /\ get_session_status) => C6_StatusByTimeout
       /\ C6_FalseUntilVerified]_vars

\* C6 amended: the same, provided the record was not reset since the
\* verify_password (by set_password, by clear_session, or by an earlier
\* status check after the timeout).
C6_ExpiredAfterTimeoutUnlessReset ==
    [][/\ (verified_at # 0 /\ session.is_authenticated /\ get_session_status)
             => C6_StatusByTimeout
       /\ C6_FalseUntilVerified]_vars

\* C6: a status check after the timeout returned Expired and reset the
\* record.
C6_Witness ==
    /\ last.op = "get_session_status"
    /\ last.out = "Expired"
    /\ verified_at # 0
    /\ last.t > verified_at + session_timeout_seconds
    /\ session = SessionDefault

C8_StrictlyGreater ==
    [][(extend_session /\ last'.res = "Ok")
          => /\ last'.val = session'.expires_at
             /\ session'.expires_at > session.expires_at]_vars

\* C8 amended: a successful extend_session() returns and stores
\* expires_at = now + T, which is the old expires_at plus the seconds the
\* clock has advanced since last_activity: greater when a second or more
\* has passed, equal in the same second.
C8_GreaterByElapsed ==
    [][(extend_session /\ last'.res = "Ok")
          => /\ last'.val = session'.expires_at
             /\ session'.expires_at = now + session_timeout_seconds
             /\ session'.expires_at
                   = session.expires_at + (now - session.last_activity)
             /\ now >= session.last_activity]_vars

\* C8: a session was extended in a later second than it was started in.
C8_Witness ==
    /\ last.op = "extend_session"
    /\ last.res = "Ok"
    /\ last.t > StartTime
    /\ session.expires_at = last.t + session_timeout_seconds
    /\ session_timeout_seconds >= 1

\* C9: extend_session() on an unauthenticated session, or after
\* expires_at, fails with SessionInvalid and leaves the record as it was;
\* the flag of an expired session is cleared by a status check only, not
\* by extend_session nor by the clock.
C9_ExtendInvalid ==
    [][/\ (extend_session /\ ~(session.is_authenticated
                               /\ now <= session.expires_at))
             => (last'.res = "SessionInvalid" /\ session' = session)
       /\ (session.is_authenticated /\ ~session'.is_authenticated)
             => last'.op \in {"get_session_status", "is_authenticated",
                              "clear_session", "set_password"}]_vars

\* C9: extend_session was refused after expires_at, and the record still
\* carries the flag.
C9_Witness ==
    /\ last.op = "extend_session"
    /\ last.res = "SessionInvalid"
    /\ session.is_authenticated
    /\ now > session.expires_at

\* The passwords a stored blob is tried with.
C10_Passwords == MasterPasswords \cup {dummy_password}

\* C10: every blob that save or migrate_encryption_version writes to the
\* table is encrypted under the master password that was verified for the
\* session: it decrypts under a password q exactly when q is that master
\* password.
C10_SealedUnderMasterPassword ==
    [][(save_backlog_workspace_config \/ migrate_encryption_version)
          => \A id \in DOMAIN store' :
                (id \notin DOMAIN store \/ store'[id] # store[id])
                   => \A q \in C10_Passwords :
                         (OpenRow(store'[id], q).err = "Ok")
                            <=> (q = latest_password)]_vars

\* C11: in an authenticated session the vault is a map from id to (record,
\* API key): whatever successful saves and deletes came before, a get of
\* an id returns the stored record fields and the API key of the latest
\* save of that id (and fails for an id not saved or deleted since), and a
\* listing returns exactly the ids saved and not deleted since, once each,
\* each with its own API key.
C11_VaultIsMap ==
    /\ [](DOMAIN saved = DOMAIN store)
    /\ [][(/\ last'.op = "get"
           /\ StatusAt(session, now') = "Authenticated"
           /\ get_backlog_workspace_config)
          => IF last'.id \in DOMAIN saved
             THEN /\ last'.res = "Ok"
                  /\ last'.pw = saved[last'.id]
                  /\ last'.ret =
                       <<[id |-> last'.id,
                          encryption_version |->
                              store[last'.id].encryption_version,
                          api_key |-> saved[last'.id]]>>
             ELSE last'.res # "Ok"]_vars
    /\ [][(/\ last'.op = "list"
           /\ StatusAt(session, now') = "Authenticated"
           /\ get_all_backlog_workspace_configs)
          => /\ last'.res = "Ok"
             /\ Len(last'.ret) = Cardinality(DOMAIN saved)
             /\ {last'.ret[k].id : k \in 1..Len(last'.ret)} = DOMAIN saved
             /\ \A k \in 1..Len(last'.ret) :
                   /\ last'.ret[k].api_key = saved[last'.ret[k].id]
                   /\ last'.ret[k].encryption_version =
                        store[last'.ret[k].id].encryption_version]_vars

\* C11: a listing returned two records with different API keys.
C11_Witness ==
    /\ last.op = "list"
    /\ last.res = "Ok"
    /\ Len(last.ret) = 2
    /\ last.ret[1].api_key # last.ret[2].api_key
    /\ \A k \in 1..2 : last.ret[k].api_key = saved[last.ret[k].id]

\* The row id of the table after a migration to new_version is the row of
\* the table before it under the new tag, with a blob that opens to the
\* same API key.
Migrated(before, after, id, new_version) ==
    /\ after[id].id = id
    /\ after[id].encryption_version = new_version
    /\ OpenRow(before[id], verify_authentication).err = "Ok"
    /\ OpenRow(after[id], verify_authentication) =
           OpenRow(before[id], verify_authentication)

\* C12: when migrate_encryption_version(v) returns, with success or with
\* a failure (a row of the listing that does not open, a write the
\* database refuses), the table has the ids it had and every row is either
\* exactly the row it was or carries the tag v and a blob that opens to
\* the API key it held before; the rows written before a failure stay
\* written.
C12_MigrateRowByRow ==
    [][(last'.op = "migrate" /\ migrate_encryption_version)
          => /\ DOMAIN store' = DOMAIN store
             /\ \A id \in DOMAIN store :
                   \/ store'[id] = store[id]
                   \/ Migrated(store, store', id, last'.id)
             /\ Cardinality({id \in DOMAIN store : store'[id] # store[id]})
                    = last'.writes]_vars

\* C12: a migration stopped at its second write: one row carries the new
\* tag, the other the old one, and both still open.
C12_Witness ==
    /\ last.op = "migrate"
    /\ last.res = "DatabaseError"
    /\ last.writes = 1
    /\ \E a, b \in DOMAIN store :
          /\ store[a].encryption_version = last.id
          /\ store[b].encryption_version # last.id
          /\ OpenRow(store[a], verify_authentication).err = "Ok"
          /\ OpenRow(store[b], verify_authentication).err = "Ok"

\* C13: a migrate_encryption_version(v) that follows a successful
\* migrate_encryption_version(v) at once, in a session that is
\* authenticated for the whole call, succeeds, writes no row and leaves
\* blob and version tag of every row as the first run left them.
C13_SecondMigrationIsNoOp ==
    [][(/\ last.op = "migrate" /\ last.res = "Ok"
        /\ last'.op = "migrate" /\ last'.id = last.id
        /\ StatusAt(session, now') = "Authenticated"
        /\ migrate_encryption_version)
          => /\ last'.res = "Ok"
             /\ last'.writes = 0
             /\ store' = store]_vars

\* C13: a migration to "v2" found two rows that carry the tag already (the
\* vault itself saves under "v1") and wrote nothing.
C13_Witness ==
    /\ last.op = "migrate"
    /\ last.id = "v2"
    /\ last.res = "Ok"
    /\ last.writes = 0
    /\ Cardinality(DOMAIN store) = 2
    /\ \A id \in DOMAIN store : store[id].encryption_version = "v2"

\* C14: a row that does not decode, decrypt or read as UTF-8 does not end
\* a listing: every row of the table that opens is still returned with its
\* API key.
C14_ListingSurvivesBadRow ==
    [][(/\ last'.op = "list"
        /\ StatusAt(session, now') = "Authenticated"
        /\ get_all_backlog_workspace_configs)
          => \A id \in DOMAIN store :
                LET r == OpenRow(store[id], verify_authentication)
                IN  r.err = "Ok"
                    => \E k \in 1..Len(last'.ret) :
                          /\ last'.ret[k].id = id
                          /\ last'.ret[k].api_key = r.val]_vars

\* C15: in a session that is authenticated for the whole call, a get of an
\* id that has no row fails with DataFormatError (the row was not found),
\* not with AuthenticationError, decrypts nothing and leaves the table as
\* it was.
C15_MissingIdIsDataError ==
    [][(/\ last'.op = "get"
        /\ last'.id \notin DOMAIN store
        /\ StatusAt(session, now') = "Authenticated"
        /\ get_backlog_workspace_config)
          => /\ last'.res = "DataFormatError"
             /\ last'.out = "NotFound"
             /\ last'.crypto = 0
             /\ store' = store]_vars

\* C15: with another row in the table, a get of an id without a row was
\* answered with the not-found error, and the session goes on.
C15_Witness ==
    /\ last.op = "get"
    /\ last.res = "DataFormatError"
    /\ last.out = "NotFound"
    /\ last.id \notin DOMAIN store
    /\ store # <<>>
    /\ StatusAt(session, now) = "Authenticated"

\* C16: in a session that is authenticated for the whole call, a delete
\* succeeds whether the id has a row or not, removes that row and no
\* other; a get of the id that follows fails; a second delete of the id
\* that follows succeeds and leaves the table as it is.
C16_DeleteIsIdempotent ==
    /\ [][(/\ last'.op = "delete"
           /\ StatusAt(session, now') = "Authenticated"
           /\ delete_backlog_workspace_config)
             => /\ last'.res = "Ok"
                /\ DOMAIN store' = (DOMAIN store) \ {last'.id}
                /\ \A k \in DOMAIN store' : store'[k] = store[k]]_vars
    /\ []((last.op = "delete" /\ last.res = "Ok")
             => last.id \notin DOMAIN store)
    /\ [][(/\ last.op = "delete" /\ last.res = "Ok"
           /\ last'.op = "get" /\ last'.id = last.id
           /\ get_backlog_workspace_config)
             => last'.res \in {"DataFormatError", "AuthenticationError"}]_vars
    /\ [][(/\ last.op = "delete" /\ last.res = "Ok"
           /\ last'.op = "delete" /\ last'.id = last.id
           /\ StatusAt(session, now') = "Authenticated"
           /\ delete_backlog_workspace_config)
             => /\ last'.res = "Ok"
                /\ store' = store]_vars

\* C16: a delete succeeded for an id, and the row of the other id is in
\* the table still.
C16_Witness ==
    /\ last.op = "delete"
    /\ last.res = "Ok"
    /\ last.id \notin DOMAIN store
    /\ \E k \in DOMAIN store : k # last.id /\ k \in DOMAIN saved

\* C17: two calls of encrypt with the same plaintext and the same password
\* take different salts and different nonces, so the two blobs differ;
\* each blob decrypts to the plaintext.
C17_FreshSaltAndNonce ==
    /\ cs.phase \in {"again", "both"}
          => /\ Slice(cs.orig, 0, SaltLen) # Slice(cs.second, 0, SaltLen)
             /\ Slice(cs.orig, SaltLen, SaltLen + NonceLen)
                    # Slice(cs.second, SaltLen, SaltLen + NonceLen)
             /\ cs.orig # cs.second
    /\ cs.phase = "both"
          => /\ cs.out = [err |-> "Ok", val |-> cs.x]
             /\ cs.out2 = [err |-> "Ok", val |-> cs.x]

\* C17: a one-byte plaintext was encrypted twice under "p" and both blobs
\* came back as that byte.
C17_Witness ==
    /\ cs.phase = "both"
    /\ cs.x = <<255>> /\ cs.p = <<112>>
    /\ cs.orig # cs.second
    /\ cs.out.val = <<255>> /\ cs.out2.val = <<255>>

\* C18: decrypt of a buffer of fewer than 60 bytes, the empty one too,
\* fails with InvalidDataFormat under every password, never with
\* DecryptionFailed, and derives no key.
C18_ShortIsInvalidFormat ==
    (cs.phase = "short" /\ Len(cs.blob) < MinCiphertextLen)
        => /\ cs.out = [err |-> "InvalidDataFormat", val |-> <<>>]
           /\ cs.kdf = 0

\* C18: the first 59 bytes of a blob were refused under the password that
\* made it; so was the empty buffer.
C18_Witness ==
    /\ cs.phase = "short"
    /\ cs.q = cs.p
    /\ \/ Len(cs.blob) = MinCiphertextLen - 1 /\ cs.blob[1] = cs.orig[1]
       \/ cs.blob = <<>>
    /\ cs.out.err = "InvalidDataFormat"

\* C19: once get_session_status has reported Expired, every later
\* get_session_status reports Expired, until a verify_password succeeds.
C19_ExpiredStays ==
    [][(/\ expired_reported
        /\ last'.op = "get_session_status"
        /\ get_session_status)
          => last'.out = "Expired"]_vars

\* C19: the get_session_status that reports Expired flips the record to
\* unauthenticated; from then on the record stays unauthenticated and
\* every get_session_status reports NotAuthenticated (not Expired, not
\* Authenticated) until a verify_password succeeds, which leaves a session
\* that is Authenticated at that clock reading.
C19_ExpiredReportedOnce ==
    /\ [](expired_reported => ~session.is_authenticated)
    /\ [][(/\ expired_reported
           /\ last'.op = "get_session_status"
           /\ get_session_status)
             => last'.out = "NotAuthenticated"]_vars
    /\ [][(/\ last'.op = "verify_password" /\ last'.res = "Ok"
           /\ verify_password)
             => /\ ~expired_reported'
                /\ StatusAt(session', now') = "Authenticated"]_vars

\* C19: after an Expired report and with no verification since, a
\* get_session_status has answered NotAuthenticated.
C19_Witness ==
    /\ expired_reported
    /\ last.op = "get_session_status"
    /\ last.out = "NotAuthenticated"

\* A step in which a vault operation returned: the last call is one, and
\* the step is not one of the clock alone (which leaves the record of the
\* last call and the session record as they are).
VaultReturn ==
    /\ last'.op \in {"save", "get", "list", "delete", "migrate"}
    /\ (last' # last \/ session' # session)

\* C20: a vault operation (save, get, list, delete, migrate) that passes
\* the authentication gate leaves the session extended from the clock
\* reading t of the gate: expires_at = t + timeout, last_activity = t,
\* expires_at not less than before; so it is when the operation fails
\* after the gate.  A call in a session that is authenticated at t passes.
C20_GateExtendsSession ==
    [][(/\ VaultReturn
        /\ \/ last'.res # "AuthenticationError"
           \/ StatusAt(session, now') = "Authenticated")
          => /\ last'.res # "AuthenticationError"
             /\ session'.is_authenticated
             /\ session'.expires_at = now' + session_timeout_seconds
             /\ session'.last_activity = now'
             /\ session'.expires_at >= session.expires_at]_vars

\* C20: a get that failed after the gate (no row for the id), later than
\* the session was started, left the session extended from its own clock
\* reading.
C20_Witness ==
    /\ last.op = "get"
    /\ last.res = "DataFormatError"
    /\ now > StartTime
    /\ session.is_authenticated
    /\ session.last_activity = now
    /\ session.expires_at = now + session_timeout_seconds

\* C21: no encryption or decryption (each derives a key) runs while its
\* caller holds a lock that guards the SessionRecord, and a caller of
\* get_session_status, extend_session or clear_session never waits for a
\* lock whose holder is inside an encryption or a decryption.
C21_SessionLocksAreShort ==
    /\ \A h \in Callers :
          callers[h].pc \in CryptoSteps
             => /\ locks.session # h
                /\ locks.manager # h
    /\ \A c \in Callers :
          (/\ callers[c].op \in {"get_session_status", "extend_session",
                                 "clear_session"}
           /\ callers[c].pc \in {"lock_manager", "lock_session"})
             => LET h == IF callers[c].pc = "lock_manager"
                         THEN locks.manager ELSE locks.session
                IN  h = 0 \/ callers[h].pc \notin CryptoSteps

\* The length of a password in characters.
CharCount(password) == Len(password)

\* C22: of two passwords of which the second has at least as many
\* characters as the first and every character class (lowercase,
\* uppercase, digit, special) the first has, the second is not rated
\* lower than the first in Weak < Fair < Strong < VeryStrong.
C22_StrengthMonotonic ==
    (/\ Len(probe.tiers) = 2
     /\ CharCount(probe.second) >= CharCount(probe.first)
     /\ Classes(probe.first) \subseteq Classes(probe.second))
       => Rank(probe.tiers[2]) >= Rank(probe.tiers[1])

\* C23: a password of fewer than 8 characters, or without a lowercase
\* letter, an uppercase letter or a digit, is rated Weak, and set_password
\* refuses it and stores nothing.
C23_ShortOrPoorIsWeak ==
    /\ (/\ Len(probe.tiers) >= 1
        /\ \/ CharCount(probe.first) < 8
           \/ ~({1, 2, 3} \subseteq Classes(probe.first)))
          => probe.tiers[1] = "Weak"
    /\ (/\ last.op = "set_password"
        /\ \/ CharCount(last.pw) < 8
           \/ ~({1, 2, 3} \subseteq Classes(last.pw)))
          => /\ last.res = "WeakPassword"
             /\ password_hash_storage = None

\* C24: a password of at least 8 characters with a lowercase letter, an
\* uppercase letter and a digit is rated Fair with 8 or 9 characters and
\* Strong with 10 or more when it has no special character, Strong with 8
\* to 11 characters and VeryStrong with 12 or more when it has one, and so
\* never Weak.
C24_StrengthTable ==
    (/\ Len(probe.tiers) >= 1
     /\ CharCount(probe.first) >= 8
     /\ {1, 2, 3} \subseteq Classes(probe.first))
       => probe.tiers[1] =
             IF 4 \in Classes(probe.first)
             THEN IF CharCount(probe.first) >= 12 THEN "VeryStrong"
                  ELSE "Strong"
             ELSE IF CharCount(probe.first) >= 10 THEN "Strong"
                  ELSE "Fair"

\* A stored text that is malformed: it does not decode, it decodes to
\* fewer bytes than a salt, a nonce and a tag, or it decrypts to bytes
\* that are not UTF-8.
Malformed(row) ==
    LET encrypted_api_key == base64_decode(row.api_key_encrypted)
    IN  \/ encrypted_api_key.err # "Ok"
        \/ Len(encrypted_api_key.val) < MinCiphertextLen
        \/ LET api_key_bytes == decrypt(encrypted_api_key.val,
                                        verify_authentication)
           IN  /\ api_key_bytes.err = "Ok"
               /\ from_utf8(api_key_bytes.val).err # "Ok"

\* C25: a get whose row is malformed, and a listing that fails over rows
\* each of which opens or is malformed, fail with DataFormatError and not
\* with CryptographyError.
C25_MalformedIsDataFormatError ==
    /\ (/\ last.op = "get"
        /\ last.res # "AuthenticationError"
        /\ last.id \in DOMAIN store
        /\ Malformed(store[last.id]))
          => last.res = "DataFormatError"
    /\ (/\ last.op = "list"
        /\ last.res \notin {"Ok", "AuthenticationError"}
        /\ \A id \in DOMAIN store :
              \/ Malformed(store[id])
              \/ OpenRow(store[id], verify_authentication).err = "Ok")
          => last.res = "DataFormatError"

\* C26: the memory a SecureBytes or SecureString gives back, on clear()
\* and when its owner goes out of scope, holds only zero bytes, and after
\* clear() the container is empty.
C26_ZeroedBeforeRelease ==
    /\ \A h \in Handles :
          \A i \in 1..Len(mem[h].freed) : mem[h].freed[i] = 0
    /\ last.op = "clear" => Len(mem[last.val].data) = 0

\* C27: once set_password(p2) has returned and no other set_password is
\* under way, a verify_password that writes an authenticated session is a
\* verify_password(p2): a verify_password(p1) that overlapped the
\* set_password does not leave the session authenticated.
C27_NoSessionFromOldPassword ==
    [][\A c \in Callers :
          (/\ callers[c].pc = "write"
           /\ callers'[c].pc = "idle"
           /\ latest_password # <<>>
           /\ \A d \in Callers : callers[d].op # "set_password")
             => callers[c].pw = latest_password]_vars

\* C28: with a clock that does not go back, the stored expires_at and
\* last_activity of a session that stays authenticated never decrease,
\* however extend_session and verify_password of several callers
\* interleave.
C28_SessionTimesNeverDecrease ==
    [][(session.is_authenticated /\ session'.is_authenticated)
          => /\ session'.expires_at >= session.expires_at
             /\ session'.last_activity >= session.last_activity]_vars

\* C29: whatever was called, a session record that is not authenticated
\* has expires_at = 0 and last_activity = 0, and one that is authenticated
\* has expires_at = last_activity + timeout while a verification
\* ciphertext is stored.
C29_SessionRecordShape ==
    IF session.is_authenticated
    THEN /\ session.expires_at
               = session.last_activity + session_timeout_seconds
         /\ password_hash_storage # None
    ELSE /\ session.expires_at = 0
         /\ session.last_activity = 0

\* C29: a session started in one second was extended in a later one and
\* is authenticated.
C29_Witness ==
    /\ session.is_authenticated
    /\ last.op = "extend_session"
    /\ last.res = "Ok"
    /\ verified_at = 0
    /\ session.last_activity > StartTime
    /\ session.expires_at = session.last_activity + session_timeout_seconds

\* C30: a successful save stamps its row "v1" whatever migrations ran
\* before, and a successful migrate_encryption_version(v) re-encrypts every
\* row that carries another tag than v, among them the rows saved since
\* the last migration to v.
C30_SaveKeepsVaultVersion ==
    [][/\ (last'.op = "save" /\ last'.res = "Ok" /\ VaultReturn)
             => store'[last'.id].encryption_version = "v1"
       /\ (last'.op = "migrate" /\ last'.res = "Ok" /\ VaultReturn)
             => \A id \in DOMAIN store :
                   store[id].encryption_version # last'.id
                      => /\ store'[id].encryption_version = last'.id
                         /\ store'[id].api_key_encrypted
                               # store[id].api_key_encrypted]_vars

\* C30: a migration to "v2" found one row tagged "v2" by an earlier
\* migration and one tagged "v1" by a save, and re-encrypted that one.
C30_Witness ==
    /\ last.op = "migrate"
    /\ last.id = "v2"
    /\ last.res = "Ok"
    /\ last.writes = 1
    /\ Cardinality(DOMAIN store) = 2
    /\ \A id \in DOMAIN store : store[id].encryption_version = "v2"
====
